---- MODULE Spec2Model ----
(***************************************************************************)
(* Row-synchronised multi-producer / multi-consumer ring buffer            *)
(* (Messenger::MBuffer) together with the Producer / Consumer workers and  *)
(* the stop sequence of RunProducersConsumers.                             *)
(*                                                                         *)
(* Every access to an atomic of the buffer (a cursor, a slot status, a map *)
(* entry) and every read of a stop flag is one step.  The column loop of a *)
(* worker takes one step per column.                                       *)
(*                                                                         *)
(* m_stop of the buffer and of the workers are plain bools read and        *)
(* written by different threads.  Every read of the buffer's m_stop in a   *)
(* claim follows a compare_exchange_strong on a slot status, and the write *)
(* in Stop() precedes the status stores of ReleaseAllLocks(), so the reads *)
(* are modelled as reads of the current value.                             *)
(***************************************************************************)
EXTENDS Integers, Sequences, FiniteSets, TLC

\* ------------------------------------------------------------------ bounds
\* Number of elements of the buffer (BufSize of main, scaled down).
BufSize == 2
\* Producers start no new claim once m_prodLoc has reached the limit of the run:
\* MaxAbs in the runs with one producer, MaxAbsMP in the runs with more workers.
MaxAbs == 3
MaxAbsMP == 2
\* Number of calls the main thread makes on the buffer once the run has ended.
MaxCalls == 3
\* Width in bits of size_t and int64_t (64 in the build, scaled down).
SizeBits == 3

\* --------------------------------------------------------- program constants
TColumns == 1
TRows == BufSize
m_rawBufSize == TRows * TColumns

READY_FOR_WRITE == 0
WRITING == 1
READY_FOR_READ == 2
READING == 3

g_NumProd == 2
g_NumCons == 2

VARIABLES
  m_rows,            \* MBuffer::m_rows
  m_columns,         \* MBuffer::m_columns
  m_stop,            \* MBuffer::m_stop
  m_buf,             \* MBuffer::m_buf, the index of each element
  m_consLoc,         \* MBuffer::m_consLoc
  m_prodLoc,         \* MBuffer::m_prodLoc
  m_locStatus,       \* MBuffer::m_locStatus
  m_locToAbsLocMap,  \* MBuffer::m_locToAbsLocMap
  numProd,           \* numProd_ of RunProducersConsumers
  numCons,           \* numCons_ of RunProducersConsumers
  pc,                \* position of each worker thread
  w_stop,            \* Producer::m_stop / Consumer::m_stop
  absLoc,            \* local absLoc of a claim, absRow of Run after it returned
  loc,               \* local loc of a claim, row of Run after it returned
  casOk,             \* result of the worker's last compare_exchange_strong
  col,               \* local col of Run
  prevObj,           \* Consumer::Run prevObj (equal to m_lastObj)
  exited,            \* "no", or the verifier check that called exit
  m_numObjs,         \* Producer::m_numObjs / Consumer::m_numObjs
  m_lastObj,         \* Producer::m_lastObj / Consumer::m_lastObj
  dpc,               \* position of the driver thread
  dIdx,              \* worker whose Stop() the driver is executing
  dI,                \* loop index i of ReleaseAllLocks
  absLimit,          \* bound of the run on m_prodLoc (MaxAbs or MaxAbsMP)
  totalProduced,     \* RunProducersConsumers: totalProduced (totalMsgsProd)
  totalConsumed,     \* RunProducersConsumers: totalConsumed (totalMsgsCons)
  lastProduced,      \* RunProducersConsumers: lastProduced
  lastConsumed,      \* RunProducersConsumers: lastConsumed
  mismatch,          \* "ERROR: mismatch between produced and consumed" was printed
  apiOp,             \* last call of the main thread on the buffer, "none" before the first
  apiArgs,           \* its arguments <<rows_, columns_>> (<<0, 0>> without arguments)
  apiThrew,          \* it threw std::runtime_error
  apiCalls,          \* number of calls the main thread has made
  prodClaims,        \* history: valid producer claims per absolute index (0, 1, 2 = many)
  consClaims,        \* history: valid consumer claims per absolute index (0, 1, 2 = many)
  lastProdAbs,       \* history: absolute index of the last valid producer claim of a slot
  lastRel,           \* history: who released a slot last: "none", "prod", "cons"
  numCols,           \* main: numCols of the sweep
  mainPc,            \* main: position in the sweep
  shapeRC,           \* main: <<numRows, numCols or numColsTmp>> of the shape in hand
  calls              \* main: the calls made on the buffer, <<name, rows_, columns_>>

bufVars == <<m_rows, m_columns, m_stop, m_buf, m_consLoc, m_prodLoc, m_locStatus,
             m_locToAbsLocMap>>
workerVars == <<pc, w_stop, absLoc, loc, casOk, col, prevObj, exited>>
driverVars == <<numProd, numCons, dpc, dIdx, dI, absLimit>>
histVars == <<prodClaims, consClaims, lastProdAbs, lastRel>>
statVars == <<m_numObjs, m_lastObj>>
resultVars == <<totalProduced, totalConsumed, lastProduced, lastConsumed, mismatch>>
apiVars == <<apiOp, apiArgs, apiThrew, apiCalls>>
mainVars == <<numCols, mainPc, shapeRC, calls>>
vars == <<bufVars, workerVars, driverVars, histVars, statVars, resultVars, apiVars,
         mainVars>>

Prods == 1..numProd
Cons == (numProd + 1)..(numProd + numCons)
Workers == Prods \cup Cons

\* ----------------------------------------------------------------- helpers
\* loc = absLoc % m_rows
RingLoc(a) == a % m_rows

\* compare_exchange_strong(expected, desired) succeeds iff the current value is expected
CasSucceedsAlways(cur, expected) == TRUE
CasSucceeds(cur, expected) == cur = expected

\* ++absLoc before the cursor store
NextAbs(a) == a + 1

\* absRow * BufElemSize() + col
ElemLoc(a, c) == a * m_columns + c

\* operator[](loc_): index in m_buf of element col of row loc_
ElemAddr(r, c) == r * m_columns + c

\* ObjectGenerator::GetNext followed by GetIndex: the index of the object is its location
GetNextOffByOne(index) == index + 1
GetNext(index) == index

\* m_locToAbsLocMap[loc].load() == absLoc
MapMatchesUnchecked(k, a) == TRUE
MapMatches(k, a) == m_locToAbsLocMap[k] = a

\* GetNextLocForProd stores absLoc, not loc, in the map entry of loc
MapValueWrongIndex(a, k) == k
MapValue(a, k) == a

\* SetLocReadyForCons: status.store(Status::READY_FOR_READ)
ProdReleaseStatusWrong == READY_FOR_WRITE
ProdReleaseStatus == READY_FOR_READ

\* SetLocReadyForProd: status.store(Status::READY_FOR_WRITE)
ConsReleaseStatusStuck == READING
ConsReleaseStatus == READY_FOR_WRITE

\* the while condition of the column loops: col < BufElemSize() && !m_stop
ColGuard(w) == col[w] < m_columns /\ ~w_stop[w]

\* saturating count of the history variables
Bump(n) == IF n < 2 THEN n + 1 ELSE 2

Running == exited = "no"

\* Consumer::Run: exit(0) after "Consumed in wrong sequence" and "Consumed wrong obj"
VerifierExitCode == 0

\* the exit status of the process once a consumer check has called exit
ExitStatus == VerifierExitCode

\* conversion to size_t: the value modulo 2^SizeBits
ToSizeT(x) == x % (2 ^ SizeBits)

\* the values a size_t argument can take
SizeT == 0..(2 ^ SizeBits - 1)

\* return (size_t)(-1) of a claim that has seen the stop flag
StoppedRowLast == m_rows - 1
StoppedRow == ToSizeT(-1)

\* && (!m_stop) of the CAS loops of the claims, while (!m_stop) of GetNextLocForCons
LoopStoppedNever == FALSE
LoopStopped == m_stop

\* Run: if (row >= m_buffer.BufSize()) break
IsIllegalRow(row) == row >= m_rows

\* absRow, row and col are declared in the body of the while loop of Run, and absLoc,
\* loc and the CAS result are locals of the claim: they end with the iteration.
EndIteration(w, next) ==
  /\ pc' = [pc EXCEPT ![w] = next]
  /\ absLoc' = [absLoc EXCEPT ![w] = 0]
  /\ loc' = [loc EXCEPT ![w] = 0]
  /\ casOk' = [casOk EXCEPT ![w] = FALSE]
  /\ col' = [col EXCEPT ![w] = 0]

\* main: for (size_t numCols = 1; ...), no call made on the buffer yet
MainInit ==
  /\ numCols = 1
  /\ mainPc = "test"
  /\ shapeRC = <<0, 0>>
  /\ calls = <<>>

\* -------------------------------------------------------------------- Init
\* The state after Reset(), SetRowsColumns(r, c) and the construction of np
\* producers and nc consumers, on a freshly constructed buffer.
InitOf(np, nc, r, c, limit) ==
  /\ m_rows = r
  /\ m_columns = c
  /\ m_stop = FALSE
  /\ m_buf = [i \in 0..(m_rawBufSize - 1) |-> 0]
  /\ m_consLoc = 0
  /\ m_prodLoc = 0
  /\ m_locStatus = [i \in 0..(m_rawBufSize - 1) |-> READY_FOR_WRITE]
  /\ m_locToAbsLocMap = [i \in 0..(m_rawBufSize - 1) |-> -1]
  /\ numProd = np
  /\ numCons = nc
  /\ pc = [w \in 1..(np + nc) |-> "Run"]
  /\ w_stop = [w \in 1..(np + nc) |-> FALSE]
  /\ absLoc = [w \in 1..(np + nc) |-> 0]
  /\ loc = [w \in 1..(np + nc) |-> 0]
  /\ casOk = [w \in 1..(np + nc) |-> FALSE]
  /\ col = [w \in 1..(np + nc) |-> 0]
  /\ prevObj = [w \in 1..(np + nc) |-> -1]
  /\ exited = "no"
  /\ m_numObjs = [w \in 1..(np + nc) |-> 0]
  /\ m_lastObj = [w \in 1..(np + nc) |-> -1]
  /\ totalProduced = 0
  /\ totalConsumed = 0
  /\ lastProduced = -1
  /\ lastConsumed = -1
  /\ mismatch = FALSE
  /\ apiOp = "none"
  /\ apiArgs = <<0, 0>>
  /\ apiThrew = FALSE
  /\ apiCalls = 0
  /\ dpc = "sleep"
  /\ dIdx = 1
  /\ dI = 0
  /\ absLimit = limit
  /\ prodClaims = [a \in 0..(limit - 1) |-> 0]
  /\ consClaims = [a \in 0..(limit - 1) |-> 0]
  /\ lastProdAbs = [k \in 0..(r - 1) |-> k - r]
  /\ lastRel = [k \in 0..(r - 1) |-> "none"]
  /\ MainInit

Shapes == {rc \in (1..m_rawBufSize) \X (1..m_rawBufSize) : rc[1] * rc[2] = m_rawBufSize}

\* g_NumProd producers and g_NumCons consumers
Init == \E rc \in Shapes : InitOf(g_NumProd, g_NumCons, rc[1], rc[2], MaxAbsMP)

\* one producer and g_NumCons consumers
Init1P == \E rc \in Shapes : InitOf(1, g_NumCons, rc[1], rc[2], MaxAbs)

\* the runs the stop sequence is explored for: one producer and one consumer, one
\* producer and g_NumCons consumers, and g_NumProd producers and one consumer on the
\* ring of a single row
InitStop ==
  \/ \E rc \in Shapes : InitOf(1, 1, rc[1], rc[2], MaxAbs)
  \/ \E rc \in Shapes : InitOf(1, g_NumCons, rc[1], rc[2], MaxAbsMP)
  \/ InitOf(g_NumProd, 1, 1, m_rawBufSize, MaxAbsMP)

\* one producer and one consumer
Init11 == \E rc \in Shapes : InitOf(1, 1, rc[1], rc[2], MaxAbs)

\* ---------------------------------------------------------------- Producer
\* Producer::Run, while (!m_stop)
P_Run(p) ==
  /\ Running /\ pc[p] = "Run"
  /\ pc' = [pc EXCEPT ![p] = IF w_stop[p] THEN "Done" ELSE "Load"]
  /\ UNCHANGED <<bufVars, w_stop, absLoc, loc, casOk, col, prevObj, exited,
                 driverVars, histVars>>
  /\ UNCHANGED <<statVars, resultVars, apiVars, mainVars>>

\* GetNextLocForProd: absLoc = m_prodLoc.load(); loc = absLoc % m_rows
P_Load(p) ==
  /\ Running /\ pc[p] = "Load"
  /\ m_prodLoc < absLimit \/ m_stop
  /\ absLoc' = [absLoc EXCEPT ![p] = m_prodLoc]
  /\ loc' = [loc EXCEPT ![p] = RingLoc(m_prodLoc)]
  /\ pc' = [pc EXCEPT ![p] = "Cas"]
  /\ UNCHANGED <<bufVars, w_stop, casOk, col, prevObj, exited, driverVars, histVars>>
  /\ UNCHANGED <<statVars, resultVars, apiVars, mainVars>>

\* GetNextLocForProd: status->compare_exchange_strong(READY_FOR_WRITE, WRITING)
P_Cas(p) ==
  /\ Running /\ pc[p] = "Cas"
  /\ IF CasSucceeds(m_locStatus[loc[p]], READY_FOR_WRITE)
       THEN /\ m_locStatus' = [m_locStatus EXCEPT ![loc[p]] = WRITING]
            /\ casOk' = [casOk EXCEPT ![p] = TRUE]
            /\ pc' = [pc EXCEPT ![p] = "StopChk"]
       ELSE /\ m_locStatus' = m_locStatus
            /\ casOk' = [casOk EXCEPT ![p] = FALSE]
            /\ pc' = [pc EXCEPT ![p] = "LoopStop"]
  /\ UNCHANGED <<m_rows, m_columns, m_stop, m_buf, m_consLoc, m_prodLoc,
                 m_locToAbsLocMap, w_stop, absLoc, loc, col, prevObj, exited,
                 driverVars, histVars>>
  /\ UNCHANGED <<statVars, resultVars, apiVars, mainVars>>

\* GetNextLocForProd: && (!m_stop) of the while condition, after a failed CAS
P_LoopStop(p) ==
  /\ Running /\ pc[p] = "LoopStop"
  /\ pc' = [pc EXCEPT ![p] = IF LoopStopped THEN "StopChk" ELSE "Load"]
  /\ UNCHANGED <<bufVars, w_stop, absLoc, loc, casOk, col, prevObj, exited,
                 driverVars, histVars>>
  /\ UNCHANGED <<statVars, resultVars, apiVars, mainVars>>

\* GetNextLocForProd: if (m_stop) return (size_t)(-1); Run breaks on an illegal row
\* and goes on with any other
P_StopChk(p) ==
  /\ Running /\ pc[p] = "StopChk"
  /\ IF m_stop
       THEN IF IsIllegalRow(StoppedRow)
              THEN EndIteration(p, "Done")
              ELSE /\ pc' = [pc EXCEPT ![p] = "Break"]
                   /\ loc' = [loc EXCEPT ![p] = StoppedRow]
                   /\ UNCHANGED <<absLoc, casOk, col>>
       ELSE /\ pc' = [pc EXCEPT ![p] = "Map"]
            /\ UNCHANGED <<absLoc, loc, casOk, col>>
  /\ UNCHANGED <<bufVars, w_stop, prevObj, exited, driverVars, histVars>>
  /\ UNCHANGED <<statVars, resultVars, apiVars, mainVars>>

\* GetNextLocForProd: m_locToAbsLocMap[loc].store(absLoc)
P_Map(p) ==
  /\ Running /\ pc[p] = "Map"
  /\ m_locToAbsLocMap' = [m_locToAbsLocMap EXCEPT ![loc[p]] = MapValue(absLoc[p], loc[p])]
  /\ pc' = [pc EXCEPT ![p] = "Store"]
  /\ UNCHANGED <<m_rows, m_columns, m_stop, m_buf, m_consLoc, m_prodLoc, m_locStatus,
                 w_stop, absLoc, loc, casOk, col, prevObj, exited, driverVars, histVars>>
  /\ UNCHANGED <<statVars, resultVars, apiVars, mainVars>>

\* GetNextLocForProd: ++absLoc; m_prodLoc.store(absLoc); return loc
P_Store(p) ==
  /\ Running /\ pc[p] = "Store"
  /\ m_prodLoc' = NextAbs(absLoc[p])
  /\ IF IsIllegalRow(loc[p])
       THEN EndIteration(p, "Done")
       ELSE /\ pc' = [pc EXCEPT ![p] = "Break"]
            /\ UNCHANGED <<absLoc, loc, casOk, col>>
  /\ prodClaims' = [prodClaims EXCEPT ![absLoc[p]] = Bump(@)]
  /\ lastProdAbs' = [lastProdAbs EXCEPT ![loc[p]] = absLoc[p]]
  /\ UNCHANGED <<m_rows, m_columns, m_stop, m_buf, m_consLoc, m_locStatus,
                 m_locToAbsLocMap, w_stop, prevObj, exited,
                 driverVars, consClaims, lastRel>>
  /\ UNCHANGED <<statVars, resultVars, apiVars, mainVars>>

\* Producer::Run: if (m_stop) break; size_t col = 0
P_Break(p) ==
  /\ Running /\ pc[p] = "Break"
  /\ IF w_stop[p]
       THEN EndIteration(p, "Done")
       ELSE /\ pc' = [pc EXCEPT ![p] = "Col"]
            /\ col' = [col EXCEPT ![p] = 0]
            /\ UNCHANGED <<absLoc, loc, casOk>>
  /\ UNCHANGED <<bufVars, w_stop, prevObj, exited, driverVars, histVars>>
  /\ UNCHANGED <<statVars, resultVars, apiVars, mainVars>>

\* Producer::Run: one pass of the column loop: arr[col] = GetNext(absRow*columns + col)
P_Col(p) ==
  /\ Running /\ pc[p] = "Col"
  /\ IF ColGuard(p)
       THEN /\ m_buf' = [m_buf EXCEPT ![ElemAddr(loc[p], col[p])] =
                                         GetNext(ElemLoc(absLoc[p], col[p]))]
            /\ m_lastObj' = [m_lastObj EXCEPT ![p] = GetNext(ElemLoc(absLoc[p], col[p]))]
            /\ m_numObjs' = [m_numObjs EXCEPT ![p] = @ + 1]
            /\ col' = [col EXCEPT ![p] = @ + 1]
            /\ pc' = pc
       ELSE /\ m_buf' = m_buf
            /\ col' = col
            /\ pc' = [pc EXCEPT ![p] = "Rel"]
            /\ UNCHANGED statVars
  /\ UNCHANGED <<m_rows, m_columns, m_stop, m_consLoc, m_prodLoc, m_locStatus,
                 m_locToAbsLocMap, w_stop, absLoc, loc, casOk, prevObj, exited,
                 driverVars, histVars>>
  /\ UNCHANGED <<resultVars, apiVars, mainVars>>

\* Producer::Run: m_buffer.SetLocReadyForCons(row)
P_Rel(p) ==
  /\ Running /\ pc[p] = "Rel"
  /\ m_locStatus' = [m_locStatus EXCEPT ![RingLoc(loc[p])] = ProdReleaseStatus]
  /\ EndIteration(p, "Run")
  /\ lastRel' = [lastRel EXCEPT ![RingLoc(loc[p])] = "prod"]
  /\ UNCHANGED <<m_rows, m_columns, m_stop, m_buf, m_consLoc, m_prodLoc,
                 m_locToAbsLocMap, w_stop, prevObj, exited,
                 driverVars, prodClaims, consClaims, lastProdAbs>>
  /\ UNCHANGED <<statVars, resultVars, apiVars, mainVars>>

\* ---------------------------------------------------------------- Consumer
\* Consumer::Run, while (!m_stop)
C_Run(c) ==
  /\ Running /\ pc[c] = "Run"
  /\ pc' = [pc EXCEPT ![c] = IF w_stop[c] THEN "Done" ELSE "Load"]
  /\ UNCHANGED <<bufVars, w_stop, absLoc, loc, casOk, col, prevObj, exited,
                 driverVars, histVars>>
  /\ UNCHANGED <<statVars, resultVars, apiVars, mainVars>>

\* GetNextLocForCons: absLoc = m_consLoc.load(); loc = absLoc % m_rows (before the loops)
C_Load(c) ==
  /\ Running /\ pc[c] = "Load"
  /\ absLoc' = [absLoc EXCEPT ![c] = m_consLoc]
  /\ loc' = [loc EXCEPT ![c] = RingLoc(m_consLoc)]
  /\ pc' = [pc EXCEPT ![c] = "Outer"]
  /\ UNCHANGED <<bufVars, w_stop, casOk, col, prevObj, exited, driverVars, histVars>>
  /\ UNCHANGED <<statVars, resultVars, apiVars, mainVars>>

\* GetNextLocForCons: while (!m_stop), the outer loop
C_Outer(c) ==
  /\ Running /\ pc[c] = "Outer"
  /\ pc' = [pc EXCEPT ![c] = IF LoopStopped THEN "StopChk" ELSE "Cas"]
  /\ UNCHANGED <<bufVars, w_stop, absLoc, loc, casOk, col, prevObj, exited,
                 driverVars, histVars>>
  /\ UNCHANGED <<statVars, resultVars, apiVars, mainVars>>

\* GetNextLocForCons: status->compare_exchange_strong(READY_FOR_READ, READING)
C_Cas(c) ==
  /\ Running /\ pc[c] = "Cas"
  /\ IF CasSucceeds(m_locStatus[loc[c]], READY_FOR_READ)
       THEN /\ m_locStatus' = [m_locStatus EXCEPT ![loc[c]] = READING]
            /\ casOk' = [casOk EXCEPT ![c] = TRUE]
            /\ pc' = [pc EXCEPT ![c] = "MapChk"]
       ELSE /\ m_locStatus' = m_locStatus
            /\ casOk' = [casOk EXCEPT ![c] = FALSE]
            /\ pc' = [pc EXCEPT ![c] = "LoopStop"]
  /\ UNCHANGED <<m_rows, m_columns, m_stop, m_buf, m_consLoc, m_prodLoc,
                 m_locToAbsLocMap, w_stop, absLoc, loc, col, prevObj, exited,
                 driverVars, histVars>>
  /\ UNCHANGED <<statVars, resultVars, apiVars, mainVars>>

\* GetNextLocForCons: && (!m_stop) of the inner while condition, after a failed CAS
C_LoopStop(c) ==
  /\ Running /\ pc[c] = "LoopStop"
  /\ pc' = [pc EXCEPT ![c] = IF LoopStopped THEN "MapChk" ELSE "Reload"]
  /\ UNCHANGED <<bufVars, w_stop, absLoc, loc, casOk, col, prevObj, exited,
                 driverVars, histVars>>
  /\ UNCHANGED <<statVars, resultVars, apiVars, mainVars>>

\* GetNextLocForCons: absLoc = m_consLoc.load(); loc = absLoc % m_rows (inner loop body)
C_Reload(c) ==
  /\ Running /\ pc[c] = "Reload"
  /\ absLoc' = [absLoc EXCEPT ![c] = m_consLoc]
  /\ loc' = [loc EXCEPT ![c] = RingLoc(m_consLoc)]
  /\ pc' = [pc EXCEPT ![c] = "Cas"]
  /\ UNCHANGED <<bufVars, w_stop, casOk, col, prevObj, exited, driverVars, histVars>>
  /\ UNCHANGED <<statVars, resultVars, apiVars, mainVars>>

\* GetNextLocForCons: if (m_locToAbsLocMap[loc].load() == absLoc) break;
C_MapChk(c) ==
  /\ Running /\ pc[c] = "MapChk"
  /\ pc' = [pc EXCEPT ![c] = IF MapMatches(loc[c], absLoc[c]) THEN "StopChk"
                                                                ELSE "Rollback"]
  /\ UNCHANGED <<bufVars, w_stop, absLoc, loc, casOk, col, prevObj, exited,
                 driverVars, histVars>>
  /\ UNCHANGED <<statVars, resultVars, apiVars, mainVars>>

\* GetNextLocForCons: status->store(statusReadyForRead); the outer loop goes round
\* with absLoc, loc and status as they are
C_Rollback(c) ==
  /\ Running /\ pc[c] = "Rollback"
  /\ m_locStatus' = [m_locStatus EXCEPT ![loc[c]] = READY_FOR_READ]
  /\ pc' = [pc EXCEPT ![c] = "Outer"]
  /\ UNCHANGED <<m_rows, m_columns, m_stop, m_buf, m_consLoc, m_prodLoc,
                 m_locToAbsLocMap, w_stop, absLoc, loc, casOk, col, prevObj, exited,
                 driverVars, histVars>>
  /\ UNCHANGED <<statVars, resultVars, apiVars, mainVars>>

\* GetNextLocForCons: if (m_stop) return (size_t)(-1); Run breaks on an illegal row
\* and goes on with any other
C_StopChk(c) ==
  /\ Running /\ pc[c] = "StopChk"
  /\ IF m_stop
       THEN IF IsIllegalRow(StoppedRow)
              THEN EndIteration(c, "Done")
              ELSE /\ pc' = [pc EXCEPT ![c] = "Break"]
                   /\ loc' = [loc EXCEPT ![c] = StoppedRow]
                   /\ UNCHANGED <<absLoc, casOk, col>>
       ELSE /\ pc' = [pc EXCEPT ![c] = "Store"]
            /\ UNCHANGED <<absLoc, loc, casOk, col>>
  /\ UNCHANGED <<bufVars, w_stop, prevObj, exited, driverVars, histVars>>
  /\ UNCHANGED <<statVars, resultVars, apiVars, mainVars>>

\* GetNextLocForCons: ++absLoc; m_consLoc.store(absLoc); return loc
C_Store(c) ==
  /\ Running /\ pc[c] = "Store"
  /\ m_consLoc' = NextAbs(absLoc[c])
  /\ IF IsIllegalRow(loc[c])
       THEN EndIteration(c, "Done")
       ELSE /\ pc' = [pc EXCEPT ![c] = "Break"]
            /\ UNCHANGED <<absLoc, loc, casOk, col>>
  /\ consClaims' = [consClaims EXCEPT ![absLoc[c]] = Bump(@)]
  /\ UNCHANGED <<m_rows, m_columns, m_stop, m_buf, m_prodLoc, m_locStatus,
                 m_locToAbsLocMap, w_stop, prevObj, exited,
                 driverVars, prodClaims, lastProdAbs, lastRel>>
  /\ UNCHANGED <<statVars, resultVars, apiVars, mainVars>>

\* Consumer::Run: if (m_stop) break; size_t col = 0
C_Break(c) ==
  /\ Running /\ pc[c] = "Break"
  /\ IF w_stop[c]
       THEN EndIteration(c, "Done")
       ELSE /\ pc' = [pc EXCEPT ![c] = "Col"]
            /\ col' = [col EXCEPT ![c] = 0]
            /\ UNCHANGED <<absLoc, loc, casOk>>
  /\ UNCHANGED <<bufVars, w_stop, prevObj, exited, driverVars, histVars>>
  /\ UNCHANGED <<statVars, resultVars, apiVars, mainVars>>

\* Consumer::Run: one pass of the column loop: read arr[col], the order check, the
\* index check, arr[col].Value(0)
C_Col(c) ==
  /\ Running /\ pc[c] = "Col"
  /\ IF ColGuard(c)
       THEN LET curObj == m_buf[ElemAddr(loc[c], col[c])]
                lastLoc == ElemLoc(absLoc[c], col[c])
            IN  IF curObj < prevObj[c]
                  THEN /\ exited' = "order"
                       /\ UNCHANGED <<m_buf, col, prevObj, pc, statVars>>
                  ELSE IF lastLoc # curObj
                  THEN /\ exited' = "index"
                       /\ prevObj' = [prevObj EXCEPT ![c] = curObj]
                       /\ m_lastObj' = [m_lastObj EXCEPT ![c] = curObj]
                       /\ m_numObjs' = [m_numObjs EXCEPT ![c] = @ + 1]
                       /\ UNCHANGED <<m_buf, col, pc>>
                  ELSE /\ prevObj' = [prevObj EXCEPT ![c] = curObj]
                       /\ m_lastObj' = [m_lastObj EXCEPT ![c] = curObj]
                       /\ m_numObjs' = [m_numObjs EXCEPT ![c] = @ + 1]
                       /\ m_buf' = [m_buf EXCEPT ![ElemAddr(loc[c], col[c])] = 0]
                       /\ col' = [col EXCEPT ![c] = @ + 1]
                       /\ UNCHANGED <<exited, pc>>
       ELSE /\ pc' = [pc EXCEPT ![c] = "Rel"]
            /\ UNCHANGED <<m_buf, col, prevObj, exited, statVars>>
  /\ UNCHANGED <<m_rows, m_columns, m_stop, m_consLoc, m_prodLoc, m_locStatus,
                 m_locToAbsLocMap, w_stop, absLoc, loc, casOk, driverVars, histVars>>
  /\ UNCHANGED <<resultVars, apiVars, mainVars>>

\* Consumer::Run: m_buffer.SetLocReadyForProd(row)
C_Rel(c) ==
  /\ Running /\ pc[c] = "Rel"
  /\ m_locStatus' = [m_locStatus EXCEPT ![RingLoc(loc[c])] = ConsReleaseStatus]
  /\ EndIteration(c, "Run")
  /\ lastRel' = [lastRel EXCEPT ![RingLoc(loc[c])] = "cons"]
  /\ UNCHANGED <<m_rows, m_columns, m_stop, m_buf, m_consLoc, m_prodLoc,
                 m_locToAbsLocMap, w_stop, prevObj, exited,
                 driverVars, prodClaims, consClaims, lastProdAbs>>
  /\ UNCHANGED <<statVars, resultVars, apiVars, mainVars>>

\* ------------------------------------------------------------------ Driver
\* RunProducersConsumers stops the producers in order, then the consumers in order;
\* the workers have the identifiers 1..numProd (producers) and the following numCons
\* (consumers), so the stop order is the order of the identifiers.
NumWorkers == numProd + numCons

\* RunProducersConsumers joins the consumers in order, then the producers in order.
JoinTarget(j) == IF j <= numCons THEN numProd + j ELSE j - numCons

\* RunProducersConsumers: the sleep ends
D_Wake ==
  /\ Running /\ dpc = "sleep"
  /\ dpc' = "wstop"
  /\ dIdx' = 1
  /\ UNCHANGED <<bufVars, workerVars, numProd, numCons, dI, absLimit, histVars>>
  /\ UNCHANGED <<statVars, resultVars, apiVars, mainVars>>

\* Producer::Stop / Consumer::Stop: m_stop = true
D_WorkerStop ==
  /\ Running /\ dpc = "wstop"
  /\ w_stop' = [w_stop EXCEPT ![dIdx] = TRUE]
  /\ dpc' = "bstop"
  /\ UNCHANGED <<bufVars, pc, absLoc, loc, casOk, col, prevObj, exited,
                 numProd, numCons, dIdx, dI, absLimit, histVars>>
  /\ UNCHANGED <<statVars, resultVars, apiVars, mainVars>>

\* MBuffer::Stop: m_stop = true, and ReleaseAllLocks starts with i = 0
D_BufferStop ==
  /\ Running /\ dpc = "bstop"
  /\ m_stop' = TRUE
  /\ dI' = 0
  /\ dpc' = "relStatus"
  /\ UNCHANGED <<m_rows, m_columns, m_buf, m_consLoc, m_prodLoc, m_locStatus,
                 m_locToAbsLocMap, workerVars, numProd, numCons, dIdx, absLimit,
                 histVars>>
  /\ UNCHANGED <<statVars, resultVars, apiVars, mainVars>>

\* ReleaseAllLocks: status.store(Status::READY_FOR_WRITE) for row i
D_RelStatus ==
  /\ Running /\ dpc = "relStatus"
  /\ m_locStatus' = [m_locStatus EXCEPT ![dI] = READY_FOR_WRITE]
  /\ dpc' = "relMap"
  /\ UNCHANGED <<m_rows, m_columns, m_stop, m_buf, m_consLoc, m_prodLoc,
                 m_locToAbsLocMap, workerVars, numProd, numCons, dIdx, dI, absLimit,
                 histVars>>
  /\ UNCHANGED <<statVars, resultVars, apiVars, mainVars>>

\* ReleaseAllLocks: m_locToAbsLocMap[i].store(-1); ++i; the loop test; after the
\* last row Stop() returns and the driver goes on to the next worker, or to the joins
D_RelMap ==
  /\ Running /\ dpc = "relMap"
  /\ m_locToAbsLocMap' = [m_locToAbsLocMap EXCEPT ![dI] = -1]
  /\ IF dI + 1 < m_rows
       THEN /\ dI' = dI + 1
            /\ dpc' = "relStatus"
            /\ dIdx' = dIdx
       ELSE /\ dI' = 0
            /\ IF dIdx < NumWorkers
                 THEN dIdx' = dIdx + 1 /\ dpc' = "wstop"
                 ELSE dIdx' = 1 /\ dpc' = "join"
  /\ UNCHANGED <<m_rows, m_columns, m_stop, m_buf, m_consLoc, m_prodLoc, m_locStatus,
                 workerVars, numProd, numCons, absLimit, histVars>>
  /\ UNCHANGED <<statVars, resultVars, apiVars, mainVars>>

\* RunProducersConsumers: GetThread().join() returns once the thread has left Run
D_Join ==
  /\ Running /\ dpc = "join"
  /\ pc[JoinTarget(dIdx)] = "Done"
  /\ IF dIdx < NumWorkers
       THEN dIdx' = dIdx + 1 /\ dpc' = "join"
       ELSE dIdx' = dIdx /\ dpc' = "done"
  /\ UNCHANGED <<bufVars, workerVars, numProd, numCons, dI, absLimit, histVars>>
  /\ UNCHANGED <<statVars, resultVars, apiVars, mainVars>>

\* totalProduced += prods[i]->GetTotal() over the workers of S
RECURSIVE TotalOf(_)
TotalOf(S) ==
  IF S = {} THEN 0
  ELSE LET w == CHOOSE x \in S : TRUE IN m_numObjs[w] + TotalOf(S \ {w})

\* lp = GetLastObj().GetIndex(); if (lp > lastProduced) lastProduced = lp, from -1,
\* over the workers of S
RECURSIVE LastOf(_)
LastOf(S) ==
  IF S = {} THEN -1
  ELSE LET w == CHOOSE x \in S : TRUE
           rest == LastOf(S \ {w})
       IN  IF m_lastObj[w] > rest THEN m_lastObj[w] ELSE rest

\* (lastProduced != (totalMsgsProd-1)) || (lastConsumed != (totalMsgsCons-1)), the
\* int64_t operands converted to size_t
CountersDiffer(lp, tp, lc, tc) ==
  \/ ToSizeT(lp) # ToSizeT(tp - 1)
  \/ ToSizeT(lc) # ToSizeT(tc - 1)

\* RunProducersConsumers after the joins: the totals, the last objects and the
\* sanity test of the run with a single producer and a single consumer
D_Stats ==
  /\ Running /\ dpc = "done"
  /\ totalProduced' = TotalOf(Prods)
  /\ totalConsumed' = TotalOf(Cons)
  /\ lastProduced' = LastOf(Prods)
  /\ lastConsumed' = LastOf(Cons)
  /\ mismatch' = /\ numProd <= 1 /\ numCons <= 1
                 /\ CountersDiffer(LastOf(Prods), TotalOf(Prods),
                                   LastOf(Cons), TotalOf(Cons))
  /\ dpc' = "end"
  /\ UNCHANGED <<bufVars, workerVars, numProd, numCons, dIdx, dI, absLimit,
                 histVars, statVars, apiVars, mainVars>>

\* --------------------------------------------------------------------- API
\* The calls of the main thread on the buffer once RunProducersConsumers has returned:
\* no worker thread is running, so a call is one step.
Quiet == Running /\ dpc = "end" /\ apiCalls < MaxCalls

\* ReleaseAllLocks: for (auto i = 0u; i < m_rows; ++i)
ReleasedRowsButFirst == 1..(m_rows - 1)
ReleasedRows == 0..(m_rows - 1)

\* ReleaseAllLocks: status.store(Status::READY_FOR_WRITE) for the rows of the loop
ReleasedStatus ==
  [i \in DOMAIN m_locStatus |->
     IF i \in ReleasedRows THEN READY_FOR_WRITE ELSE m_locStatus[i]]

\* ReleaseAllLocks: m_locToAbsLocMap[i].store(-1) for the rows of the loop.  With
\* m_rows beyond the arrays the stores run past m_locStatus into the members behind
\* it: the map entries end as -1 or as the READY_FOR_WRITE of a status store.
ReleasedMaps ==
  IF m_rows <= m_rawBufSize
    THEN {[i \in DOMAIN m_locToAbsLocMap |->
             IF i \in ReleasedRows THEN -1 ELSE m_locToAbsLocMap[i]]}
    ELSE [DOMAIN m_locToAbsLocMap -> {-1, READY_FOR_WRITE}]

\* the record of a call
Called(op, args, threw) ==
  /\ apiOp' = op
  /\ apiArgs' = args
  /\ apiThrew' = threw
  /\ apiCalls' = apiCalls + 1

\* MBuffer::Stop
A_Stop ==
  /\ Quiet
  /\ m_stop' = TRUE
  /\ m_locStatus' = ReleasedStatus
  /\ m_locToAbsLocMap' \in ReleasedMaps
  /\ Called("Stop", <<0, 0>>, FALSE)
  /\ UNCHANGED <<m_rows, m_columns, m_buf, m_consLoc, m_prodLoc, workerVars,
                 driverVars, histVars, statVars, resultVars, mainVars>>

\* MBuffer::Reset
A_Reset ==
  /\ Quiet
  /\ m_consLoc' = 0
  /\ m_prodLoc' = 0
  /\ m_locStatus' = ReleasedStatus
  /\ m_locToAbsLocMap' \in ReleasedMaps
  /\ m_stop' = FALSE
  /\ Called("Reset", <<0, 0>>, FALSE)
  /\ UNCHANGED <<m_rows, m_columns, m_buf, workerVars, driverVars, histVars,
                 statVars, resultVars, mainVars>>

\* SetRowsColumns: rows_*columns_ != TRows*TColumns, a product of size_t
ShapeAccepted(r, c) == ToSizeT(r * c) = ToSizeT(TRows * TColumns)

\* MBuffer::SetRowsColumns(rows_, columns_)
A_SetRowsColumns(r, c) ==
  /\ Quiet
  /\ IF ShapeAccepted(r, c)
       THEN /\ m_rows' = r
            /\ m_columns' = c
            /\ Called("SetRowsColumns", <<r, c>>, FALSE)
       ELSE /\ UNCHANGED <<m_rows, m_columns>>
            /\ Called("SetRowsColumns", <<r, c>>, TRUE)
  /\ UNCHANGED <<m_stop, m_buf, m_consLoc, m_prodLoc, m_locStatus, m_locToAbsLocMap,
                 workerVars, driverVars, histVars, statVars, resultVars, mainVars>>

ApiStep ==
  \/ A_Stop
  \/ A_Reset
  \/ \E r \in SizeT : \E c \in SizeT : A_SetRowsColumns(r, c)

\* -------------------------------------------------------------------- Next
ProducerStep ==
  \/ \E p \in Prods : P_Run(p)
  \/ \E p \in Prods : P_Load(p)
  \/ \E p \in Prods : P_Cas(p)
  \/ \E p \in Prods : P_LoopStop(p)
  \/ \E p \in Prods : P_StopChk(p)
  \/ \E p \in Prods : P_Map(p)
  \/ \E p \in Prods : P_Store(p)
  \/ \E p \in Prods : P_Break(p)
  \/ \E p \in Prods : P_Col(p)
  \/ \E p \in Prods : P_Rel(p)

ConsumerStep ==
  \/ \E c \in Cons : C_Run(c)
  \/ \E c \in Cons : C_Load(c)
  \/ \E c \in Cons : C_Outer(c)
  \/ \E c \in Cons : C_Cas(c)
  \/ \E c \in Cons : C_LoopStop(c)
  \/ \E c \in Cons : C_Reload(c)
  \/ \E c \in Cons : C_MapChk(c)
  \/ \E c \in Cons : C_Rollback(c)
  \/ \E c \in Cons : C_StopChk(c)
  \/ \E c \in Cons : C_Store(c)
  \/ \E c \in Cons : C_Break(c)
  \/ \E c \in Cons : C_Col(c)
  \/ \E c \in Cons : C_Rel(c)

DriverStep ==
  \/ D_Wake \/ D_WorkerStop \/ D_BufferStop \/ D_RelStatus \/ D_RelMap \/ D_Join
  \/ D_Stats

\* the workers while the driver sleeps
Next == ProducerStep \/ ConsumerStep

\* the workers and the driver's stop sequence
NextStop == ProducerStep \/ ConsumerStep \/ DriverStep

\* g_NumProd producers and g_NumCons consumers while the driver sleeps
Spec == Init /\ [][Next]_vars

\* one producer and g_NumCons consumers while the driver sleeps
Spec1P == Init1P /\ [][Next]_vars

\* the workers, and the driver stopping and joining them
SpecStop == InitStop /\ [][NextStop]_vars

\* the steps of worker w
WorkerStep(w) ==
  \/ /\ w \in Prods
     /\ \/ P_Run(w) \/ P_Load(w) \/ P_Cas(w) \/ P_LoopStop(w) \/ P_StopChk(w)
        \/ P_Map(w) \/ P_Store(w) \/ P_Break(w) \/ P_Col(w) \/ P_Rel(w)
  \/ /\ w \in Cons
     /\ \/ C_Run(w) \/ C_Load(w) \/ C_Outer(w) \/ C_Cas(w) \/ C_LoopStop(w)
        \/ C_Reload(w) \/ C_MapChk(w) \/ C_Rollback(w) \/ C_StopChk(w)
        \/ C_Store(w) \/ C_Break(w) \/ C_Col(w) \/ C_Rel(w)

\* every worker thread that can take a step eventually takes one; nothing is assumed
\* of the driver, whose sleep may last for ever
WorkerFairness == \A w \in 1..(g_NumProd + g_NumCons) : WF_vars(WorkerStep(w))

\* one producer and one consumer, and the driver stopping and joining them
Spec11 == Init11 /\ [][NextStop]_vars

\* one producer and one consumer scheduled fairly, and the driver
SpecFair == Init11 /\ [][NextStop]_vars /\ WorkerFairness

\* a run of one producer and one consumer, then calls of the main thread on the buffer
NextApi == NextStop \/ ApiStep
SpecApi == Init11 /\ [][NextApi]_vars

\* g_NumProd producers and g_NumCons consumers on the ring of a single row
InitSingleRow == InitOf(g_NumProd, g_NumCons, 1, m_rawBufSize, MaxAbsMP)

\* the workers of the single-row ring scheduled fairly while the driver sleeps
SpecFairMP == InitSingleRow /\ [][Next]_vars /\ WorkerFairness

\* one producer and g_NumCons consumers scheduled fairly while the driver sleeps
SpecFair1P == Init1P /\ [][Next]_vars /\ WorkerFairness

\* ------------------------------------------------------------- MsgQExample
\* RunProducersConsumers of MsgQExample.cpp.  Its workers call the same claims and
\* releases of the buffer; their column loops write and count, and read and count, with
\* no check.  A producer starts its thread in its constructor.  A consumer's
\* constructor calls std::async(std::launch::async, ThreadFuncForConsumer, this) and
\* drops the future, whose destructor returns when Run has returned.

\* The state when RunProducersConsumers(np, nc, buffer) has constructed its producers:
\* the producers run, no consumer has been launched.
InitExample(np, nc, r, c, limit) ==
  /\ m_rows = r
  /\ m_columns = c
  /\ m_stop = FALSE
  /\ m_buf = [i \in 0..(m_rawBufSize - 1) |-> 0]
  /\ m_consLoc = 0
  /\ m_prodLoc = 0
  /\ m_locStatus = [i \in 0..(m_rawBufSize - 1) |-> READY_FOR_WRITE]
  /\ m_locToAbsLocMap = [i \in 0..(m_rawBufSize - 1) |-> -1]
  /\ numProd = np
  /\ numCons = nc
  /\ pc = [w \in 1..(np + nc) |-> IF w <= np THEN "Run" ELSE "New"]
  /\ w_stop = [w \in 1..(np + nc) |-> FALSE]
  /\ absLoc = [w \in 1..(np + nc) |-> 0]
  /\ loc = [w \in 1..(np + nc) |-> 0]
  /\ casOk = [w \in 1..(np + nc) |-> FALSE]
  /\ col = [w \in 1..(np + nc) |-> 0]
  /\ prevObj = [w \in 1..(np + nc) |-> -1]
  /\ exited = "no"
  /\ m_numObjs = [w \in 1..(np + nc) |-> 0]
  /\ m_lastObj = [w \in 1..(np + nc) |-> -1]
  /\ totalProduced = 0
  /\ totalConsumed = 0
  /\ lastProduced = -1
  /\ lastConsumed = -1
  /\ mismatch = FALSE
  /\ apiOp = "none"
  /\ apiArgs = <<0, 0>>
  /\ apiThrew = FALSE
  /\ apiCalls = 0
  /\ dpc = "ctor"
  /\ dIdx = 1
  /\ dI = 0
  /\ absLimit = limit
  /\ prodClaims = [a \in 0..(limit - 1) |-> 0]
  /\ consClaims = [a \in 0..(limit - 1) |-> 0]
  /\ lastProdAbs = [k \in 0..(r - 1) |-> k - r]
  /\ lastRel = [k \in 0..(r - 1) |-> "none"]
  /\ MainInit

\* RunProducersConsumers(g_NumProd, numCons_, buffer) for numCons_ from 0 to g_NumCons
InitExampleRuns ==
  \E rc \in Shapes : \E nc \in 0..g_NumCons :
    InitExample(g_NumProd, nc, rc[1], rc[2], MaxAbsMP)

\* Producer::Run of MsgQExample: arr[col] = absRow*BufElemSize() + col; ++m_numObjs
E_P_Col(p) ==
  /\ Running /\ pc[p] = "Col"
  /\ IF ColGuard(p)
       THEN /\ m_buf' = [m_buf EXCEPT ![ElemAddr(loc[p], col[p])] =
                                         ElemLoc(absLoc[p], col[p])]
            /\ m_numObjs' = [m_numObjs EXCEPT ![p] = @ + 1]
            /\ col' = [col EXCEPT ![p] = @ + 1]
            /\ pc' = pc
       ELSE /\ pc' = [pc EXCEPT ![p] = "Rel"]
            /\ UNCHANGED <<m_buf, col, m_numObjs>>
  /\ UNCHANGED <<m_rows, m_columns, m_stop, m_consLoc, m_prodLoc, m_locStatus,
                 m_locToAbsLocMap, w_stop, absLoc, loc, casOk, prevObj, exited,
                 driverVars, histVars, m_lastObj>>
  /\ UNCHANGED <<resultVars, apiVars, mainVars>>

\* Consumer::Run of MsgQExample: curObj = arr[col]; ++m_numObjs
E_C_Col(c) ==
  /\ Running /\ pc[c] = "Col"
  /\ IF ColGuard(c)
       THEN /\ m_numObjs' = [m_numObjs EXCEPT ![c] = @ + 1]
            /\ col' = [col EXCEPT ![c] = @ + 1]
            /\ pc' = pc
       ELSE /\ pc' = [pc EXCEPT ![c] = "Rel"]
            /\ UNCHANGED <<col, m_numObjs>>
  /\ UNCHANGED <<bufVars, w_stop, absLoc, loc, casOk, prevObj, exited,
                 driverVars, histVars, m_lastObj>>
  /\ UNCHANGED <<resultVars, apiVars, mainVars>>

\* cons[i] = new Consumer<TBuffer>(buffer_): the constructor launches Run with
\* std::async and returns when the destructor of the dropped future returns, that is
\* when Run has returned; after the last consumer the driver goes to its sleep
E_ConsumerNew ==
  /\ Running /\ dpc = "ctor"
  /\ IF dIdx > numCons
       THEN /\ dpc' = "sleep"
            /\ dIdx' = 1
            /\ pc' = pc
       ELSE IF pc[numProd + dIdx] = "New"
       THEN /\ pc' = [pc EXCEPT ![numProd + dIdx] = "Run"]
            /\ UNCHANGED <<dpc, dIdx>>
       ELSE /\ pc[numProd + dIdx] = "Done"
            /\ dIdx' = dIdx + 1
            /\ UNCHANGED <<dpc, pc>>
  /\ UNCHANGED <<bufVars, w_stop, absLoc, loc, casOk, col, prevObj, exited,
                 numProd, numCons, dI, absLimit, histVars>>
  /\ UNCHANGED <<statVars, resultVars, apiVars, mainVars>>

\* cons[i]->GetThread().join() on the default-constructed m_thread of a consumer
\* throws std::system_error, which nothing catches; prods[i]->GetThread().join()
\* returns when the producer's Run has returned
E_Join ==
  /\ Running /\ dpc = "join"
  /\ IF JoinTarget(dIdx) \in Cons
       THEN /\ exited' = "terminate"
            /\ UNCHANGED <<dpc, dIdx>>
       ELSE /\ pc[JoinTarget(dIdx)] = "Done"
            /\ exited' = exited
            /\ IF dIdx < NumWorkers
                 THEN dIdx' = dIdx + 1 /\ dpc' = "join"
                 ELSE dIdx' = dIdx /\ dpc' = "done"
  /\ UNCHANGED <<bufVars, pc, w_stop, absLoc, loc, casOk, col, prevObj,
                 numProd, numCons, dI, absLimit, histVars>>
  /\ UNCHANGED <<statVars, resultVars, apiVars, mainVars>>

ExampleProducerStep ==
  \/ \E p \in Prods : P_Run(p)
  \/ \E p \in Prods : P_Load(p)
  \/ \E p \in Prods : P_Cas(p)
  \/ \E p \in Prods : P_LoopStop(p)
  \/ \E p \in Prods : P_StopChk(p)
  \/ \E p \in Prods : P_Map(p)
  \/ \E p \in Prods : P_Store(p)
  \/ \E p \in Prods : P_Break(p)
  \/ \E p \in Prods : E_P_Col(p)
  \/ \E p \in Prods : P_Rel(p)

ExampleConsumerStep ==
  \/ \E c \in Cons : C_Run(c)
  \/ \E c \in Cons : C_Load(c)
  \/ \E c \in Cons : C_Outer(c)
  \/ \E c \in Cons : C_Cas(c)
  \/ \E c \in Cons : C_LoopStop(c)
  \/ \E c \in Cons : C_Reload(c)
  \/ \E c \in Cons : C_MapChk(c)
  \/ \E c \in Cons : C_Rollback(c)
  \/ \E c \in Cons : C_StopChk(c)
  \/ \E c \in Cons : C_Store(c)
  \/ \E c \in Cons : C_Break(c)
  \/ \E c \in Cons : E_C_Col(c)
  \/ \E c \in Cons : C_Rel(c)

\* the main thread in RunProducersConsumers of MsgQExample
ExampleDriverStep ==
  \/ E_ConsumerNew \/ D_Wake \/ D_WorkerStop \/ D_BufferStop \/ D_RelStatus
  \/ D_RelMap \/ E_Join

ExampleNext == ExampleProducerStep \/ ExampleConsumerStep \/ ExampleDriverStep

\* the steps of worker thread w of MsgQExample
ExampleWorkerStep(w) ==
  \/ /\ w \in Prods
     /\ \/ P_Run(w) \/ P_Load(w) \/ P_Cas(w) \/ P_LoopStop(w) \/ P_StopChk(w)
        \/ P_Map(w) \/ P_Store(w) \/ P_Break(w) \/ E_P_Col(w) \/ P_Rel(w)
  \/ /\ w \in Cons
     /\ \/ C_Run(w) \/ C_Load(w) \/ C_Outer(w) \/ C_Cas(w) \/ C_LoopStop(w)
        \/ C_Reload(w) \/ C_MapChk(w) \/ C_Rollback(w) \/ C_StopChk(w)
        \/ C_Store(w) \/ C_Break(w) \/ E_C_Col(w) \/ C_Rel(w)

\* every thread that can take a step eventually takes one: the workers, and the main
\* thread, whose sleep of 5 seconds ends
ExampleFairness ==
  /\ \A w \in 1..(g_NumProd + g_NumCons) : WF_vars(ExampleWorkerStep(w))
  /\ WF_vars(ExampleDriverStep)

\* RunProducersConsumers of MsgQExample, all threads scheduled fairly
SpecExample == InitExampleRuns /\ [][ExampleNext]_vars /\ ExampleFairness

\* ------------------------------------------------------------------- sweep
\* The loop of main over the shapes of a buffer of SweepBufSize elements.  The sweep
\* follows the shapes main computes and the calls it makes; the slots of that buffer
\* and the threads of a run are not followed, a run returns or ends the process.

\* main: static const size_t BufSize = 10000000
SweepBufSize == 10000000

\* size_t numColsTmp = numCols/2
HalfCols(n) == n \div 2

\* size_t numRows = BufSize / numCols (or numColsTmp)
SweepRowsRoundedUp(n, c) == n \div c + 1
SweepRows(n, c) == n \div c

\* SetRowsColumns of MBuffer<BufSize, NumColumns, ...>: rows_*columns_ == TRows*TColumns
SweepAccepted(r, c) == r * c = SweepBufSize * TColumns

\* numProd and numCons of main: the defaults, or the two arguments of the command line
InitSweep ==
  \E np \in 1..g_NumProd : \E nc \in 1..g_NumCons :
    InitOf(np, nc, TRows, TColumns, MaxAbs)

\* for (...; numCols <= BufSize; ...) and if (numCols >= 10)
M_Test ==
  /\ Running /\ mainPc = "test"
  /\ mainPc' = IF numCols <= SweepBufSize
                 THEN IF numCols >= 10 THEN "half" ELSE "full"
                 ELSE "end"
  /\ UNCHANGED <<numCols, shapeRC, calls>>
  /\ UNCHANGED <<bufVars, workerVars, driverVars, histVars, statVars, resultVars, apiVars>>

\* numColsTmp = numCols/2; numRows = BufSize / numColsTmp
M_Half ==
  /\ Running /\ mainPc = "half"
  /\ shapeRC' = <<SweepRows(SweepBufSize, HalfCols(numCols)), HalfCols(numCols)>>
  /\ mainPc' = "resetH"
  /\ UNCHANGED <<numCols, calls>>
  /\ UNCHANGED <<bufVars, workerVars, driverVars, histVars, statVars, resultVars, apiVars>>

\* numRows = BufSize / numCols
M_Full ==
  /\ Running /\ mainPc = "full"
  /\ shapeRC' = <<SweepRows(SweepBufSize, numCols), numCols>>
  /\ mainPc' = "resetF"
  /\ UNCHANGED <<numCols, calls>>
  /\ UNCHANGED <<bufVars, workerVars, driverVars, histVars, statVars, resultVars, apiVars>>

\* buffer->Reset()
M_Reset ==
  /\ Running /\ mainPc \in {"resetH", "resetF"}
  /\ calls' = Append(calls, <<"Reset", 0, 0>>)
  /\ mainPc' = IF mainPc = "resetH" THEN "setH" ELSE "setF"
  /\ UNCHANGED <<numCols, shapeRC>>
  /\ UNCHANGED <<bufVars, workerVars, driverVars, histVars, statVars, resultVars, apiVars>>

\* buffer->SetRowsColumns(numRows, numCols): the std::runtime_error is not caught
M_Set ==
  /\ Running /\ mainPc \in {"setH", "setF"}
  /\ calls' = Append(calls, <<"SetRowsColumns", shapeRC[1], shapeRC[2]>>)
  /\ mainPc' = IF SweepAccepted(shapeRC[1], shapeRC[2])
                 THEN IF mainPc = "setH" THEN "runH" ELSE "runF"
                 ELSE "threw"
  /\ UNCHANGED <<numCols, shapeRC>>
  /\ UNCHANGED <<bufVars, workerVars, driverVars, histVars, statVars, resultVars, apiVars>>

\* RunProducersConsumers(numProd, numCons, *buffer) returns; numCols *= 10 after the
\* run of the full width
M_Run ==
  /\ Running /\ mainPc \in {"runH", "runF"}
  /\ IF mainPc = "runH"
       THEN mainPc' = "full" /\ numCols' = numCols
       ELSE mainPc' = "test" /\ numCols' = numCols * 10
  /\ UNCHANGED <<shapeRC, calls>>
  /\ UNCHANGED <<bufVars, workerVars, driverVars, histVars, statVars, resultVars, apiVars>>

\* RunProducersConsumers: a check of a consumer calls exit
M_RunExit ==
  /\ Running /\ mainPc \in {"runH", "runF"}
  /\ exited' \in {"order", "index"}
  /\ UNCHANGED <<pc, w_stop, absLoc, loc, casOk, col, prevObj>>
  /\ UNCHANGED <<bufVars, driverVars, histVars, statVars, resultVars, apiVars, mainVars>>

MainStep == M_Test \/ M_Half \/ M_Full \/ M_Reset \/ M_Set \/ M_Run \/ M_RunExit

\* the sweep of main
SpecSweep == InitSweep /\ [][MainStep]_vars

\* ================================================================== claims
\* a worker holds slot loc[w]: its claim returned the slot and it has not released it
Holds(w) == pc[w] \in {"Break", "Col", "Rel"}

\* a worker's claim has passed its last stop test: it returns, or has returned, a slot
Claimed(w) == pc[w] \in {"Map", "Store", "Break", "Col", "Rel"}

\* C1: the consumer's check lastLoc != curObj.GetIndex() never fires: every element a
\* consumer reads from a claimed row (k, a) at column j has index a*columns + j,
\* also while the driver stops the workers one by one.
C1_SlotIdentity == exited # "index"

\* C2: at most one worker holds a ring index at any time, for every number of
\* producers and consumers and while Stop() / ReleaseAllLocks() runs.
C2_RowMutex ==
  \A w1 \in Workers : \A w2 \in Workers :
    (w1 # w2 /\ Holds(w1) /\ Holds(w2)) => loc[w1] # loc[w2]

\* C2 witness: two workers hold rows while the stop flag is set and ReleaseAllLocks
\* has already stored READY_FOR_WRITE into the row of one of them.
C2_Witness ==
  \E w1 \in Workers : \E w2 \in Workers :
    /\ w1 # w2 /\ Holds(w1) /\ Holds(w2) /\ m_stop
    /\ m_locStatus[loc[w1]] = READY_FOR_WRITE

\* C3: a consumer claim returns (k, a) only after its own CAS moved slot k to READING
\* and the map entry of k equalled a while it held the slot; a check that finds another
\* map entry leads to the rollback store and to nothing else: the slot is not returned,
\* m_consLoc is not advanced, and READY_FOR_READ is stored into slot k once.
C3_AbaSafety ==
  [][\A c \in Cons :
       /\ (pc'[c] = "Store") =>
            /\ casOk'[c]
            /\ ~m_stop' => /\ m_locStatus'[loc'[c]] = READING
                           /\ m_locToAbsLocMap'[loc'[c]] = absLoc'[c]
       /\ (pc[c] = "MapChk" /\ pc'[c] # "MapChk"
             /\ m_locToAbsLocMap[loc[c]] # absLoc[c]) =>
            /\ pc'[c] = "Rollback"
            /\ m_consLoc' = m_consLoc /\ m_locStatus' = m_locStatus
       /\ (pc[c] = "Rollback" /\ pc'[c] # "Rollback") =>
            /\ pc'[c] = "Outer"
            /\ m_consLoc' = m_consLoc
            /\ m_locStatus' = [m_locStatus EXCEPT ![loc[c]] = READY_FOR_READ]
       /\ (pc'[c] = "Rollback") => pc[c] \in {"MapChk", "Rollback"}
    ]_vars

\* C3 witness: a consumer that won the CAS on a refilled slot has found a map entry
\* other than its absolute index and is about to roll back.
C3_Witness ==
  \E c \in Cons :
    /\ pc[c] = "Rollback" /\ casOk[c] /\ ~m_stop
    /\ m_locStatus[loc[c]] = READING
    /\ m_locToAbsLocMap[loc[c]] > absLoc[c]

\* C4: with one producer the consumer claims, in the order of their m_consLoc stores,
\* return 0, 1, 2, ... without gap or repetition: every absolute index below m_consLoc
\* has been claimed by exactly one consumer claim and none at or above it, and the
\* same for the producer and m_prodLoc.  (A store of a + 1 that kept this true found
\* m_consLoc = a, so the stores are in order.)
C4_InOrderOnce ==
  \A a \in 0..(absLimit - 1) :
    /\ consClaims[a] = (IF a < m_consLoc THEN 1 ELSE 0)
    /\ prodClaims[a] = (IF a < m_prodLoc THEN 1 ELSE 0)

\* C4 witness: every row of the run has been claimed, each consumer has consumed
\* elements, and the ring has wrapped
C4_Witness ==
  /\ m_consLoc = absLimit /\ m_consLoc > m_rows
  /\ \A c \in Cons : prevObj[c] >= 0

\* C5: no absolute index is returned by more than one consumer claim.
C5_AtMostOnce == \A a \in 0..(absLimit - 1) : consClaims[a] <= 1

\* C6: a claimed slot was won by the worker's own CAS; a producer's slot was not
\* released by a producer since the last consumer release (or was never released), and a
\* consumer's slot was released by a producer since the last consumer release.
C6_NoOverwrite ==
  \A w \in Workers :
    Claimed(w) =>
      /\ casOk[w]
      /\ (w \in Prods) => lastRel[loc[w]] # "prod"
      /\ (w \in Cons) => lastRel[loc[w]] = "prod"

\* C6 witness: a producer has claimed a slot for a second pass, after a consumer
\* released it.
C6_Witness ==
  \E p \in Prods : Claimed(p) /\ lastRel[loc[p]] = "cons" /\ absLoc[p] >= m_rows

\* C7: until Stop(), 0 <= m_consLoc <= m_prodLoc and m_prodLoc - m_consLoc <= m_rows.
C7_CursorBounds ==
  ~m_stop => /\ 0 <= m_consLoc
             /\ m_consLoc <= m_prodLoc
             /\ m_prodLoc - m_consLoc <= m_rows

\* C8: m_prodLoc never decreases and m_consLoc never decreases.
C8_CursorMonotone ==
  [][m_prodLoc' >= m_prodLoc /\ m_consLoc' >= m_consLoc]_vars

\* C9: the successive producer claims of slot k return k, k + rows, k + 2*rows, ...
C9_PassNumbering ==
  [][\A p \in Prods :
       (pc[p] = "Store" /\ pc'[p] = "Break") =>
          absLoc[p] = lastProdAbs[loc[p]] + m_rows]_vars

\* C10: while a worker holds slot k for absolute index a, and Stop() has not been
\* called, the map entry of k is a.
C10_MapStable ==
  ~m_stop => \A w \in Workers : Holds(w) => m_locToAbsLocMap[loc[w]] = absLoc[w]

\* C10 witness: a producer and a consumer hold rows at the same time, the consumer on
\* a later pass of its slot
C10_Witness ==
  /\ ~m_stop
  /\ \E p \in Prods : \E c \in Cons :
       Holds(p) /\ Holds(c) /\ absLoc[p] >= 1

\* the positions of a claim up to its last test of the stop flag
InClaim == {"Load", "Cas", "LoopStop", "Reload", "Outer", "MapChk", "Rollback", "StopChk"}

\* C11: a claim that is in its loops when Stop() sets the flag, or that starts with the
\* flag set, returns size_t(-1) and never a ring index: from the flag on, the claim
\* stays in its loops until the worker leaves Run on the illegal row; size_t(-1) is at
\* least BufSize() for the shape of the run.
C11_StopSentinel ==
  [][/\ StoppedRow >= m_rows
     /\ \A w \in Workers :
          (m_stop /\ pc[w] \in InClaim) => pc'[w] \in InClaim \cup {"Done"}
    ]_vars

\* C11 witness: with the flag set, one worker whose own stop flag is clear has left Run
\* on the sentinel, and another has won its CAS and is about to return the sentinel.
C11_Witness ==
  /\ m_stop
  /\ \E w \in Workers : pc[w] = "Done" /\ ~w_stop[w]
  /\ \E w \in Workers : pc[w] = "StopChk" /\ casOk[w]

AllDone == \A w \in Workers : pc[w] = "Done"

\* C12: once Stop() has set the stop flag of the buffer, every worker leaves Run,
\* whether it was spinning in a claim or was in the middle of a row (or the process has
\* ended in the exit(0) of a consumer).
C12_StopTermination == m_stop ~> (AllDone \/ ~Running)

\* C12 witness: both workers have left Run after Stop(), the consumer on the sentinel
\* (its own stop flag is still clear) with an empty ring, which no producer can fill.
C12_Witness ==
  /\ m_stop /\ Running /\ AllDone
  /\ \E c \in Cons : ~w_stop[c]
  /\ m_consLoc = m_prodLoc /\ m_prodLoc > 0

\* a step that is a call op of the main thread on the buffer
IsCall(op) == apiCalls' = apiCalls + 1 /\ apiOp' = op

\* every slot of the ring is READY_FOR_WRITE with map entry -1, after the step
AllReleased ==
  \A k \in 0..(m_rawBufSize - 1) :
    k < m_rows => m_locStatus'[k] = READY_FOR_WRITE /\ m_locToAbsLocMap'[k] = -1

\* C13: with no worker running, Stop() on a ring within the arrays leaves the stop flag
\* set, every slot of [0, rows) READY_FOR_WRITE with map entry -1, and the cursors, rows
\* and columns as they were; a Stop() that follows a Stop() changes nothing.
C13_StopEffect ==
  [][(IsCall("Stop") /\ m_rows <= m_rawBufSize) =>
       /\ m_stop'
       /\ AllReleased
       /\ UNCHANGED <<m_prodLoc, m_consLoc, m_rows, m_columns>>
       /\ (apiOp = "Stop") => UNCHANGED bufVars
    ]_vars

\* C13 witness: Stop() has been called as the second or a later call, after a run that
\* produced rows, and left a slot beyond the ring of one row as the run left it.
C13_Witness ==
  /\ apiOp = "Stop" /\ apiCalls >= 2 /\ m_stop
  /\ m_prodLoc > 0 /\ m_rows = 1
  /\ m_locStatus[m_rawBufSize - 1] # READY_FOR_WRITE

\* C14: Reset() with no worker running, on a ring within the arrays, leaves both cursors
\* 0, the stop flag clear and every slot of [0, rows) READY_FOR_WRITE with map entry -1,
\* whatever the run and its Stop() calls left; rows and columns are as they were.
C14_ResetPost ==
  [][(IsCall("Reset") /\ m_rows <= m_rawBufSize) =>
       /\ m_prodLoc' = 0 /\ m_consLoc' = 0
       /\ ~m_stop'
       /\ AllReleased
       /\ UNCHANGED <<m_rows, m_columns>>
    ]_vars

\* C14 witness: Reset() was the first call after a run that produced and consumed
\* elements and was stopped.
C14_Witness ==
  /\ apiOp = "Reset" /\ apiCalls = 1
  /\ totalProduced > 0 /\ totalConsumed > 0
  /\ m_prodLoc = 0 /\ m_consLoc = 0 /\ ~m_stop

\* C15: m_rows * m_columns = TRows * TColumns in every state, after any sequence of
\* SetRowsColumns calls.
C15_ShapeInvariant == m_rows * m_columns = TRows * TColumns

\* C16: SetRowsColumns(r, c) with r*c # N throws and leaves the buffer as it was; with
\* r*c = N it sets rows = r and columns = c and changes nothing else.
C16_ConfigError ==
  [][IsCall("SetRowsColumns") =>
       IF apiArgs'[1] * apiArgs'[2] # TRows * TColumns
         THEN apiThrew' /\ UNCHANGED bufVars
         ELSE /\ ~apiThrew'
              /\ m_rows' = apiArgs'[1] /\ m_columns' = apiArgs'[2]
              /\ UNCHANGED <<m_stop, m_buf, m_consLoc, m_prodLoc, m_locStatus,
                             m_locToAbsLocMap>>
    ]_vars

\* the run has one producer and one consumer
OneToOne == numProd = 1 /\ numCons = 1

\* C17: with one producer and one consumer the check curObj < prevObj never fires, from
\* the start of the workers until both have left Run, the driver's Stop() calls included.
C17_OrderedConsumption == OneToOne => exited # "order"

\* C18: with one producer and one consumer, after Stop() and the joins, the index of the
\* last produced element is totalProduced - 1 and that of the last consumed element is
\* totalConsumed - 1 (-1 and 0 when there was none), and the mismatch message is not
\* printed.
C18_FinalCounters ==
  (OneToOne /\ dpc = "end") =>
     /\ lastProduced = totalProduced - 1
     /\ lastConsumed = totalConsumed - 1
     /\ ~mismatch

\* C18 witness: the run was stopped with the producer in the middle of a row and with
\* fewer elements consumed than produced.
C18_Witness ==
  /\ OneToOne /\ dpc = "end" /\ m_columns > 1
  /\ totalProduced % m_columns # 0
  /\ totalConsumed > 0 /\ totalConsumed < totalProduced

\* C19: with one producer and one consumer, after Stop() and the joins, the number of
\* elements consumed equals the number of elements produced.
C19_NoValueLoss == (OneToOne /\ dpc = "end") => totalConsumed = totalProduced

\* the driver sleeps: Stop() has not been called and is not about to be
NoStop == dpc = "sleep"

\* the status that follows st in the cycle of a slot
NextStatus(st) == (st + 1) % 4

\* the producer of the run has a further pass to make on slot k
MorePasses(k) == lastProdAbs[k] + m_rows < absLimit

\* C20: with one producer and one consumer scheduled fairly, on every shape, as long as
\* the driver sleeps: each cursor goes on from every value below the limit of the run to
\* the next, and every slot of the ring moves on from each status to the next of
\* READY_FOR_WRITE -> WRITING -> READY_FOR_READ -> READING -> READY_FOR_WRITE (from
\* READY_FOR_WRITE as long as the run has a pass left for the slot), and to no other.
C20_Progress ==
  /\ \A n \in 0..(MaxAbs - 1) :
       /\ (m_prodLoc = n) ~> (m_prodLoc = n + 1 \/ ~NoStop)
       /\ (m_consLoc = n) ~> (m_consLoc = n + 1 \/ ~NoStop)
  /\ \A k \in 0..(m_rawBufSize - 1) : \A st \in {READY_FOR_WRITE, WRITING, READY_FOR_READ, READING} :
       (k < m_rows /\ m_locStatus[k] = st /\ (st = READY_FOR_WRITE => MorePasses(k)))
          ~> (m_locStatus[k] = NextStatus(st) \/ ~NoStop)
  /\ [][NoStop => \A k \in 0..(m_rawBufSize - 1) :
                    m_locStatus'[k] # m_locStatus[k] =>
                       m_locStatus'[k] = NextStatus(m_locStatus[k])]_vars

\* C20 witness: with the driver asleep both cursors have reached the limit of the run,
\* past the size of the ring, and every slot has been released by the consumer and is
\* READY_FOR_WRITE again.
C20_Witness ==
  /\ NoStop /\ m_prodLoc = MaxAbs /\ m_consLoc = MaxAbs /\ MaxAbs > m_rows
  /\ \A k \in 0..(m_rawBufSize - 1) :
       k < m_rows => lastRel[k] = "cons" /\ m_locStatus[k] = READY_FOR_WRITE

\* C21: with 2 producers and 2 consumers scheduled fairly and no stop, the run never
\* ends in a state from which no further row is produced: again and again the producer
\* cursor reaches the limit of the run (or a consumer check has ended the process).
C21_MpmcProgress == []<>(m_prodLoc >= absLimit \/ ~Running)

\* C22: when a consumer check has detected an element out of order or with a wrong
\* index, the process ends with a non-zero exit status.
C22_ExitStatus == ~Running => ExitStatus # 0

\* the elements of the row worker w has claimed carry the indices of absolute row absLoc[w]
RowComplete(w) ==
  \A j \in 0..(m_columns - 1) : m_buf[ElemAddr(loc[w], j)] = GetNext(ElemLoc(absLoc[w], j))

\* C23: a producer stores READY_FOR_READ into its slot only after it has written all
\* the elements of the row, whenever its own Stop() runs.
C23_CompleteRows ==
  [][\A p \in Prods :
       (pc[p] = "Rel" /\ pc'[p] # "Rel") => col[p] = m_columns /\ RowComplete(p)]_vars

\* C24: the CAS attempt of a consumer that follows its rollback uses an absolute index
\* loaded from m_consLoc after the rollback, so it equals m_consLoc when the consumer
\* goes from the test of the outer loop to the CAS.
C24_ReloadAfterRollback ==
  [][\A c \in Cons :
       (pc[c] = "Outer" /\ casOk[c] /\ pc'[c] = "Cas") => absLoc[c] = m_consLoc]_vars

\* C25: with 1 producer and 2 consumers scheduled fairly and no stop, every row the
\* producer has claimed, and so releases, is eventually returned to a consumer.
C25_EveryRowConsumed ==
  \A a \in 0..(MaxAbs - 1) : (m_prodLoc > a) ~> (consClaims[a] >= 1)

\* C26: a producer stores a + 1 into m_prodLoc only when m_prodLoc is the a it loaded,
\* and a consumer stores a + 1 into m_consLoc only when m_consLoc is a.
C26_CursorStoreSafe ==
  [][/\ \A p \in Prods : (pc[p] = "Store" /\ pc'[p] # "Store") => m_prodLoc = absLoc[p]
     /\ \A c \in Cons : (pc[c] = "Store" /\ pc'[c] # "Store") => m_consLoc = absLoc[c]
    ]_vars

\* the changes of a slot's status the cycle allows
LegalTransition(s, t) ==
  <<s, t>> \in {<<READY_FOR_WRITE, WRITING>>, <<WRITING, READY_FOR_READ>>,
                <<READY_FOR_READ, READING>>, <<READING, READY_FOR_WRITE>>,
                <<READING, READY_FOR_READ>>}

\* C27: every slot starts READY_FOR_WRITE and, as long as the stop flag is not set, a
\* slot's status changes only by READY_FOR_WRITE -> WRITING, WRITING -> READY_FOR_READ,
\* READY_FOR_READ -> READING, READING -> READY_FOR_WRITE or READING -> READY_FOR_READ.
C27_LegalTransitions ==
  /\ \A k \in DOMAIN m_locStatus : m_locStatus[k] = READY_FOR_WRITE
  /\ [][~m_stop =>
          \A k \in DOMAIN m_locStatus :
            m_locStatus'[k] # m_locStatus[k] =>
              LegalTransition(m_locStatus[k], m_locStatus'[k])]_vars

\* C27 witness: with the stop flag clear a consumer has rolled a slot back and is at the
\* test of the outer loop, a consumer has released a slot and two rows have been claimed
C27_Witness ==
  /\ ~m_stop
  /\ \E c \in Cons : pc[c] = "Outer" /\ casOk[c]
  /\ \E k \in 0..(m_rows - 1) : lastRel[k] = "cons"
  /\ m_prodLoc >= 2

\* the status a worker's successful CAS gives the slot
HeldStatus(w) == IF w \in Prods THEN WRITING ELSE READING

\* worker w stores into the status of its slot: a release or a consumer's rollback
StatusStore(w) == pc[w] \in {"Rel", "Rollback"} /\ pc'[w] # pc[w]

\* C28: a worker stores into a slot's status only when its own last CAS succeeded on
\* that slot and the slot still has the status that CAS gave it, also when the stop
\* flag is set while a consumer is in its inner CAS loop.
C28_StoreByOwner ==
  [][\A w \in Workers :
       StatusStore(w) => casOk[w] /\ m_locStatus[RingLoc(loc[w])] = HeldStatus(w)]_vars

\* C29: a claim that returns size_t(-1) does not leave the slot in the status its own
\* CAS gave it: WRITING for a producer, READING for a consumer.
C29_SentinelFrame ==
  [][\A w \in Workers :
       (pc[w] = "StopChk" /\ m_stop /\ pc'[w] = "Done" /\ casOk[w])
         => m_locStatus'[loc[w]] # HeldStatus(w)]_vars

\* C30: a consumer operation changes no map entry and not m_prodLoc; a producer
\* operation does not change m_consLoc; map entry k changes only in ReleaseAllLocks or in
\* the claim of a producer that holds slot k in WRITING; a release changes the status
\* of its slot and nothing else of the buffer.
C30_WorkerFrame ==
  [][/\ ConsumerStep => UNCHANGED <<m_locToAbsLocMap, m_prodLoc>>
     /\ ProducerStep => UNCHANGED m_consLoc
     /\ \A k \in DOMAIN m_locToAbsLocMap :
          m_locToAbsLocMap'[k] # m_locToAbsLocMap[k] =>
            \/ D_RelMap
            \/ \E p \in Prods : /\ pc[p] = "Map" /\ loc[p] = k
                                 /\ m_locStatus[k] = WRITING
     /\ \A w \in Workers :
          (pc[w] = "Rel" /\ pc'[w] # "Rel") =>
            /\ \A k \in DOMAIN m_locStatus : k # loc[w] => m_locStatus'[k] = m_locStatus[k]
            /\ UNCHANGED <<m_locToAbsLocMap, m_prodLoc, m_consLoc, m_buf>>
    ]_vars

\* rows x columns is the size of the buffer, without a wrap of the product
LegalShape(r, c) == r >= 1 /\ c >= 1 /\ r * c = TRows * TColumns

\* C31: when Reset() has been called on a buffer of a legal shape and SetRowsColumns(r, c)
\* with r * c = TRows * TColumns follows it, every slot of [0, r) is READY_FOR_WRITE with
\* map entry -1 and both cursors are 0, whatever the run and the calls before them.
C31_CleanStart ==
  [][(/\ apiOp = "Reset" /\ LegalShape(m_rows, m_columns)
      /\ apiOp' = "SetRowsColumns" /\ LegalShape(apiArgs'[1], apiArgs'[2]))
       => /\ m_rows' = apiArgs'[1] /\ m_columns' = apiArgs'[2]
          /\ m_consLoc' = 0 /\ m_prodLoc' = 0
          /\ \A k \in 0..(m_rows' - 1) :
               m_locStatus'[k] = READY_FOR_WRITE /\ m_locToAbsLocMap'[k] = -1]_vars

\* C32: the sum of the consumers' m_numObjs is never greater than the sum of the
\* producers' m_numObjs.
C32_CountConservation == TotalOf(Cons) <= TotalOf(Prods)

\* C33: a call of RunProducersConsumers of MsgQExample with at least one producer and
\* one consumer, all threads scheduled fairly, reaches its sleep, stops the workers,
\* joins them and returns.
C33_DriverTerminates == (numProd >= 1 /\ numCons >= 1) => <>(dpc = "done")

\* the i-th width of 1, 5, 10, 50, 100, 500, ...
SweepWidth(i) ==
  IF i % 2 = 1 THEN 10 ^ ((i - 1) \div 2) ELSE 5 * 10 ^ ((i - 2) \div 2)

\* C34: for BufSize = 10^7 the sweep calls Reset() and then SetRowsColumns in turn; the
\* i-th SetRowsColumns has the i-th width of 1, 5, 10, 50, ..., 5*10^6, 10^7 and
\* rows = BufSize / width with rows * width = BufSize, it never raises, and a sweep that
\* reaches its end has made the 15 calls, one per width.
C34_SweepShapes ==
  /\ mainPc # "threw"
  /\ \A i \in 1..Len(calls) :
       IF i % 2 = 1
         THEN calls[i] = <<"Reset", 0, 0>>
         ELSE /\ calls[i] = <<"SetRowsColumns", SweepBufSize \div SweepWidth(i \div 2),
                                SweepWidth(i \div 2)>>
              /\ calls[i][2] * calls[i][3] = SweepBufSize
              /\ i > 2 => calls[i][3] > calls[i - 2][3]
  /\ mainPc = "end" =>
       /\ Len(calls) = 30
       /\ calls[30][3] = SweepBufSize

\* C34 witness: the sweep has reached its end with the last run on the single row of
\* 10^7 columns
C34_Witness ==
  /\ mainPc = "end" /\ exited = "no"
  /\ Len(calls) = 30 /\ calls[30] = <<"SetRowsColumns", 1, SweepBufSize>>
  /\ calls[4] = <<"SetRowsColumns", SweepBufSize \div 5, 5>>

====
